---- MODULE Spec2Model ----
(***************************************************************************)
(* file-searcher (src/src/main.rs): an interactive loop that reads a       *)
(* search directory, a name fragment and a list of extensions, and walks   *)
(* the directory tree depth first, printing every entry that matches.      *)
(*                                                                         *)
(* Text is a sequence of one-character strings.  The character "#" stands  *)
(* for a byte sequence that is not valid Unicode (OsStr may hold one, a    *)
(* String may not).  A path is a sequence of names (its components).       *)
(***************************************************************************)
EXTENDS Naturals, Sequences, FiniteSets, TLC

VARIABLES
    fs,             \* the file system the program runs on (never written by the program)
    pc,             \* main's position: "prompt", "walk", or "overflow" (process aborted)
    input,          \* what stdin delivered to the three get_input calls of this iteration
    search_path,    \* main's locals: the tuple returned by get_search_data
    search_name,
    extensions,
    results_count,  \* main's local counter, borrowed mutably by the walk
    stack,          \* the active search_files calls, innermost first
    printed,        \* lines written to stdout since this loop iteration began
    visited,        \* entry paths the for-loop body has evaluated, in order
    read_dirs       \* the std::fs::read_dir calls of this iteration, in order

vars == <<fs, pc, input, search_path, search_name, extensions, results_count,
          stack, printed, visited, read_dirs>>

----------------------------------------------------------------------------
(* Bounds of the model *)

\* Number of nested search_files calls the native call stack holds.
MaxStack == 4

----------------------------------------------------------------------------
(* Text *)

Range(s) == {s[i] : i \in 1..Len(s)}

Front(s) == SubSeq(s, 1, Len(s) - 1)

Last(s) == s[Len(s)]

\* char::to_lowercase over the model's alphabet
LowerChar(c) ==
    CASE c = "A" -> "a"
      [] c = "B" -> "b"
      [] c = "L" -> "l"
      [] c = "T" -> "t"
      [] OTHER -> c

\* str::to_lowercase
to_lowercase(s) == [i \in 1..Len(s) |-> LowerChar(s[i])]

\* char::is_whitespace
IsWhite(c) == c \in {" ", "\n"}

\* str::trim
RECURSIVE trim(_)
trim(s) ==
    IF s = <<>> THEN <<>>
    ELSE IF IsWhite(Head(s)) THEN trim(Tail(s))
    ELSE IF IsWhite(Last(s)) THEN trim(Front(s))
    ELSE s

\* str::split_whitespace: the maximal runs of non-whitespace, in order
RECURSIVE SplitFrom(_, _)
SplitFrom(s, word) ==
    IF s = <<>> THEN (IF word = <<>> THEN <<>> ELSE <<word>>)
    ELSE IF IsWhite(Head(s))
         THEN (IF word = <<>> THEN <<>> ELSE <<word>>) \o SplitFrom(Tail(s), <<>>)
    ELSE SplitFrom(Tail(s), Append(word, Head(s)))

split_whitespace(s) == SplitFrom(s, <<>>)

\* str::contains: needle occurs in hay as a contiguous run
contains(hay, needle) ==
    \E i \in 0..Len(hay) :
        /\ i + Len(needle) <= Len(hay)
        /\ SubSeq(hay, i + 1, i + Len(needle)) = needle

\* Vec<String>::contains
vec_contains(vec, x) == \E i \in 1..Len(vec) : vec[i] = x

\* Option<&OsStr>
None == [some |-> FALSE, val |-> <<>>]

Some(v) == [some |-> TRUE, val |-> v]

\* OsStr::to_str succeeds only on valid Unicode
ValidUnicode(s) == "#" \notin Range(s)

\* position of the last "." of a name, 0 when it has none
LastDot(name) ==
    IF "." \in Range(name)
    THEN CHOOSE i \in 1..Len(name) :
            /\ name[i] = "."
            /\ \A j \in (i + 1)..Len(name) : name[j] # "."
    ELSE 0

\* Path::file_stem of a path whose last component is name
file_stem(name) ==
    IF name = <<".", ".">> THEN None
    ELSE IF LastDot(name) <= 1 THEN Some(name)
    ELSE Some(SubSeq(name, 1, LastDot(name) - 1))

\* Path::extension of a path whose last component is name
extension(name) ==
    IF name = <<".", ".">> THEN None
    ELSE IF LastDot(name) <= 1 THEN None
    ELSE Some(SubSeq(name, LastDot(name) + 1, Len(name)))

os_str_to_str_CaseKept(os_str) ==
    IF os_str.some /\ ValidUnicode(os_str.val) THEN os_str.val ELSE <<>>

\* os_str_to_str: "" for None and for text that is not Unicode, lowercased otherwise
os_str_to_str(os_str) ==
    IF os_str.some /\ ValidUnicode(os_str.val) THEN to_lowercase(os_str.val) ELSE <<>>

\* Path::to_str().unwrap_or_default(): the path, or "" (the empty path) when a
\* component is not valid Unicode
path_to_str(path) ==
    IF \A i \in 1..Len(path) : ValidUnicode(path[i]) THEN path ELSE <<>>

----------------------------------------------------------------------------
(* The file system: entries by canonical path, in directory-listing order *)

\* kind "dir": a directory; "file": a regular file; "other": neither (a socket,
\* a dangling symlink); "link": a symlink to the directory at target;
\* "ioerr": a listing item that the ReadDir iterator yields as Err.
\* readable: read_dir succeeds on it.  meta: std::fs::metadata succeeds on it.
Ent(path, kind, readable, meta, target) ==
    [path |-> path, kind |-> kind, readable |-> readable, meta |-> meta,
     target |-> target]

Dir(path) == Ent(path, "dir", TRUE, TRUE, <<>>)

Locked(path) == Ent(path, "dir", FALSE, TRUE, <<>>)

File(path) == Ent(path, "file", FALSE, TRUE, <<>>)

Socket(path) == Ent(path, "other", FALSE, TRUE, <<>>)

Dangling(path) == Ent(path, "other", FALSE, FALSE, <<>>)

Link(path, target) == Ent(path, "link", FALSE, TRUE, target)

IoErr(path) == Ent(path, "ioerr", FALSE, FALSE, <<>>)

\* the name of the directory the searches are run on
t == <<"t">>

\* A tree with mixed-case names, a directory named like a file with an
\* extension, a directory whose name is not Unicode, an unreadable directory
\* followed by siblings, a socket and a dangling symlink.
TreeEntries ==
    << Dir(<<t>>),
       File(<<t, <<"A", ".", "L">> >>),
       Dir(<<t, <<"a", "b">> >>),
       File(<<t, <<"a", "b">>, <<"b", "a", ".", "b">> >>),
       Dir(<<t, <<"a", "b">>, <<"l">> >>),
       File(<<t, <<"a", "b">>, <<"l">>, <<"a", ".", "l">> >>),
       IoErr(<<t, <<"a", "b">>, <<"?">> >>),
       File(<<t, <<"b">> >>),
       Dir(<<t, <<"b", ".", "l">> >>),
       File(<<t, <<"b", ".", "l">>, <<".", "a">> >>),
       Locked(<<t, <<"l", "a">> >>),
       File(<<t, <<"l", "a">>, <<"a", ".", "l">> >>),
       Dir(<<t, <<"#">> >>),
       File(<<t, <<"#">>, <<"a", ".", "l">> >>),
       Socket(<<t, <<"a">> >>),
       Dangling(<<t, <<"B", ".", "l">> >>),
       File(<<t, <<"a", "#", ".", "B">> >>),
       Dir(<<<<"T">> >>),
       File(<<<<"T">>, <<"a", ".", "l">> >>) >>

\* The same entries, every directory listed in the opposite order.
Reverse(s) == [i \in 1..Len(s) |-> s[Len(s) + 1 - i]]

\* A directory holding a symlink to its own parent.
LoopEntries ==
    << Dir(<<t>>),
       Dir(<<t, <<"a">> >>),
       Link(<<t, <<"a">>, <<"l">> >>, <<t>>),
       File(<<t, <<"a", ".", "l">> >>) >>

\* A chain of directories nested deeper than MaxStack - 1 below the search directory.
RECURSIVE Chain(_)
Chain(depth) ==
    IF depth = 0 THEN <<>> ELSE Append(Chain(depth - 1), [i \in 1..depth |-> <<"a">>])

DeepEntries ==
    LET chain == Chain(MaxStack + 1)
    IN  [i \in 1..Len(chain) |-> Dir(<<t>> \o Tail(chain[i]))]

\* maxlinks: symlinks the system follows in one path resolution before it
\* refuses the path (ELOOP).
FsTree == [entries |-> TreeEntries, maxlinks |-> 1]

FsTreeReversed == [entries |-> Reverse(TreeEntries), maxlinks |-> 1]

FsLoop == [entries |-> LoopEntries, maxlinks |-> 2 * MaxStack]

FsLoopRefused == [entries |-> LoopEntries, maxlinks |-> 1]

\* A file system whose search directory cannot be read at all.
FsLockedRoot ==
    [entries |-> << Locked(<<t>>), File(<<t, <<"l", ".", "t">> >>) >>, maxlinks |-> 1]

\* A directory holding one file and one empty directory of the same stem.
FsSmall ==
    [entries |-> << Dir(<<t>>), File(<<t, <<"a", ".", "b">> >>), Dir(<<t, <<"a">> >>) >>,
     maxlinks |-> 1]

FsDeep == [entries |-> DeepEntries, maxlinks |-> 1]

FileSystems == {FsTree, FsTreeReversed, FsSmall, FsLoop, FsLoopRefused, FsLockedRoot, FsDeep}

HasEntry(f, canon) == \E e \in Range(f.entries) : e.path = canon /\ e.kind # "ioerr"

EntryAt(f, canon) == CHOOSE e \in Range(f.entries) : e.path = canon

NoEnt == [ok |-> FALSE, canon |-> <<>>, links |-> 0]

\* The resolution of the file system's top: no component taken yet.
Top == [ok |-> TRUE, canon |-> <<>>, links |-> 0]

\* One step of path resolution: the component name looked up in the resolved
\* directory parent, a symlink followed unless maxlinks are used up.
ResolveIn(f, parent, name) ==
    IF ~parent.ok THEN NoEnt
    ELSE IF parent.canon # <<>> /\ EntryAt(f, parent.canon).kind # "dir" THEN NoEnt
    ELSE IF ~HasEntry(f, Append(parent.canon, name)) THEN NoEnt
    ELSE IF EntryAt(f, Append(parent.canon, name)).kind = "link"
         THEN IF parent.links + 1 > f.maxlinks THEN NoEnt
              ELSE [ok |-> TRUE, canon |-> EntryAt(f, Append(parent.canon, name)).target,
                    links |-> parent.links + 1]
    ELSE [ok |-> TRUE, canon |-> Append(parent.canon, name), links |-> parent.links]

\* Path resolution, following symlinks (what metadata and read_dir see); the
\* empty path resolves to nothing.
RECURSIVE Resolve(_, _)
Resolve(f, path) ==
    IF path = <<>> THEN NoEnt
    ELSE CHOOSE r \in {ResolveIn(f, parent, Last(path)) :
                        parent \in {IF Len(path) = 1 THEN Top ELSE Resolve(f, Front(path))}} :
            TRUE

\* Path::is_dir / Path::is_file (both follow symlinks; false when metadata fails)
is_dir(f, path) == Resolve(f, path).ok /\ EntryAt(f, Resolve(f, path).canon).kind = "dir"

is_file(f, path) == Resolve(f, path).ok /\ EntryAt(f, Resolve(f, path).canon).kind = "file"

\* std::fs::metadata(path).is_ok()
metadata_ok(f, path) == Resolve(f, path).ok /\ EntryAt(f, Resolve(f, path).canon).meta

\* The items the ReadDir iterator of the directory at canon yields.
Listing(f, canon) ==
    LET inside == SelectSeq(f.entries,
                            LAMBDA e : Len(e.path) = Len(canon) + 1 /\ Front(e.path) = canon)
    IN  [i \in 1..Len(inside) |->
            [ok |-> inside[i].kind # "ioerr", name |-> Last(inside[i].path)]]

\* std::fs::read_dir(search_dir)
read_dir(f, search_dir) ==
    IF is_dir(f, search_dir) /\ EntryAt(f, Resolve(f, search_dir).canon).readable
    THEN [ok |-> TRUE, files |-> Listing(f, Resolve(f, search_dir).canon)]
    ELSE [ok |-> FALSE, files |-> <<>>]

----------------------------------------------------------------------------

(* Console input *)

Read(line) == [ok |-> TRUE, line |-> line]

\* stdin().read_line failed
ReadFailed == [ok |-> FALSE, line |-> <<>>]

PathLines == { <<" ", "\n">>, <<" ", "T", "\n">>, <<"t", "\n">> }

NameLines == { <<"\n">>, <<"A", "\n">>, <<"b", " ", "\n">>, <<"a", "B", "\n">> }

ExtLines == { <<" ", "\n">>, <<"L", "\n">>, <<"l", " ", " ", "B", "\n">> }

\* What one get_search_data call reads: three lines, or fewer when a read fails
\* (the function returns at the first failure).
Inputs ==
    {<<ReadFailed>>}
    \cup {<<Read(p), ReadFailed>> : p \in PathLines}
    \cup {<<Read(p), Read(n), ReadFailed>> : p \in PathLines, n \in NameLines}
    \cup {<<Read(p), Read(n), Read(e)>> : p \in PathLines, n \in NameLines, e \in ExtLines}

\* get_input: the line without surrounding whitespace, or the read error
get_input(read) ==
    IF read.ok THEN [ok |-> TRUE, val |-> trim(read.line)] ELSE [ok |-> FALSE, val |-> <<>>]

\* get_extensions: the whitespace-separated words, each lowercased
get_extensions(extensions_string) ==
    LET words == split_whitespace(extensions_string)
    IN  [i \in 1..Len(words) |-> to_lowercase(words[i])]

invalid_input_BothRequired(path, name, exts) ==
    path = <<>> /\ (name = <<>> /\ exts = <<>>)

\* the test of "Handling possible invalid input"
invalid_input(path, name, exts) ==
    path = <<>> \/ (name = <<>> /\ exts = <<>>)

Rejected(kind) == [some |-> FALSE, diag |-> kind, path |-> <<>>, name |-> <<>>, exts |-> <<>>]

\* get_search_data on the reads `in`
get_search_data(in) ==
    IF \E i \in 1..Len(in) : ~in[i].ok THEN Rejected("error")
    ELSE LET path == get_input(in[1]).val
             name == get_input(in[2]).val
             exts == get_extensions(get_input(in[3]).val)
         IN  IF invalid_input(path, name, exts) THEN Rejected("invalid")
             ELSE [some |-> TRUE, diag |-> "", path |-> to_lowercase(path),
                   name |-> to_lowercase(name), exts |-> exts]

----------------------------------------------------------------------------
(* Console output *)

Line(kind, path, size, count) == [kind |-> kind, path |-> path, size |-> size, count |-> count]

\* print_path_info: the path, and the size when metadata can be read
print_path_info(f, path) == Line("match", path, metadata_ok(f, path), 0)

object_was_found_NotCounted(f, path, count, out) ==
    [results_count |-> count, printed |-> Append(out, print_path_info(f, path))]

\* object_was_found: count the match, then print it
object_was_found(f, path, count, out) ==
    [results_count |-> count + 1, printed |-> Append(out, print_path_info(f, path))]

----------------------------------------------------------------------------
(* search_files *)

\* a &str handed to read_dir as a path: "" is the empty path
PathOf(str) == IF str = <<>> THEN <<>> ELSE <<str>>

entry_path_Parent(search_dir, name) == search_dir

\* entry.path(): the directory being listed joined with the entry's name
entry_path(search_dir, name) == search_dir \o <<name>>

dir_matches_AnyExtensions(no_extensions, file_name, filename) ==
    contains(file_name, filename)

\* the test guarding object_was_found for a directory
dir_matches(no_extensions, file_name, filename) ==
    no_extensions /\ contains(file_name, filename)

\* the else-if chain deciding an entry that is not a directory
not_dir_matches(isfile, filename, exts, file_name, file_extension) ==
    IF filename = <<>> /\ vec_contains(exts, file_extension) THEN TRUE
    ELSE IF isfile /\ contains(file_name, filename)
         THEN (exts # <<>> /\ vec_contains(exts, file_extension)) \/ exts = <<>>
    ELSE FALSE

\* whether the for-loop body reports the entry at path
entry_matches(f, path, filename, exts) ==
    LET file_name == os_str_to_str(file_stem(Last(path)))
        file_extension == os_str_to_str(extension(Last(path)))
    IN  IF is_dir(f, path)
        THEN dir_matches(exts = <<>>, file_name, filename)
        ELSE not_dir_matches(is_file(f, path), filename, exts, file_name, file_extension)

enter_AbortOnError(callers, search_dir, listing) ==
    IF listing.ok
    THEN <<[search_dir |-> search_dir, files |-> listing.files]>> \o callers
    ELSE <<>>

enter_Queued(callers, search_dir, listing) ==
    IF listing.ok
    THEN callers \o <<[search_dir |-> search_dir, files |-> listing.files]>>
    ELSE callers

\* entering search_files(search_dir): a new innermost call iterating the listing,
\* or an immediate return when read_dir failed
enter(callers, search_dir, listing) ==
    IF listing.ok
    THEN <<[search_dir |-> search_dir, files |-> listing.files]>> \o callers
    ELSE callers

\* the stack once the innermost call's iterator has yielded its next item
Advanced == <<[Head(stack) EXCEPT !.files = Tail(@)]>> \o Tail(stack)

\* the path of the item the innermost call's iterator yields next
NextPath == entry_path(Head(stack).search_dir, Head(Head(stack).files).name)

\* the counter and the output after the for-loop body's match decision on path
Reported(path) ==
    IF entry_matches(fs, path, search_name, extensions)
    THEN object_was_found(fs, path, results_count, printed)
    ELSE [results_count |-> results_count, printed |-> printed]

----------------------------------------------------------------------------
(* main *)

Init ==
    /\ fs \in FileSystems
    /\ pc = "prompt"
    /\ input = <<>>
    /\ search_path = <<>>
    /\ search_name = <<>>
    /\ extensions = <<>>
    /\ results_count = 0
    /\ stack = <<>>
    /\ printed = <<>>
    /\ visited = <<>>
    /\ read_dirs = <<>>

\* get_search_data returns None: the diagnostic is printed and the loop continues
GetSearchDataNone ==
    /\ pc = "prompt"
    /\ \E in \in Inputs :
        /\ ~get_search_data(in).some
        /\ input' = in
        /\ printed' = <<Line(get_search_data(in).diag, <<>>, FALSE, 0)>>
    /\ visited' = <<>>
    /\ read_dirs' = <<>>
    /\ UNCHANGED <<fs, pc, search_path, search_name, extensions, results_count, stack>>

initial_count_Stale(previous) == previous

\* let mut results_count = 0
initial_count(previous) == 0

\* get_search_data returns Some: the blank line, the counters, and the call of
\* search_files on the search path up to its read_dir
StartSearch ==
    /\ pc = "prompt"
    /\ \E in \in Inputs :
        LET data == get_search_data(in)
            search_dir == PathOf(data.path)
            listing == read_dir(fs, search_dir)
        IN  /\ data.some
            /\ input' = in
            /\ search_path' = data.path
            /\ search_name' = data.name
            /\ extensions' = data.exts
            /\ read_dirs' = <<[dir |-> search_dir, of |-> search_dir, ok |-> listing.ok]>>
            /\ stack' = enter(<<>>, search_dir, listing)
    /\ results_count' = initial_count(results_count)
    /\ printed' = <<Line("blank", <<>>, FALSE, 0)>>
    /\ visited' = <<>>
    /\ pc' = "walk"
    /\ UNCHANGED fs

Walking == pc = "walk" /\ stack # <<>> /\ Head(stack).files # <<>>

\* the iterator yields Err: the item is skipped
SkipErrItem ==
    /\ Walking
    /\ ~Head(Head(stack).files).ok
    /\ stack' = Advanced
    /\ UNCHANGED <<fs, pc, input, search_path, search_name, extensions, results_count,
                   printed, visited, read_dirs>>

\* the loop body on an entry that is not a directory
VisitFile ==
    /\ Walking
    /\ Head(Head(stack).files).ok
    /\ ~is_dir(fs, NextPath)
    /\ results_count' = Reported(NextPath).results_count
    /\ printed' = Reported(NextPath).printed
    /\ visited' = Append(visited, NextPath)
    /\ stack' = Advanced
    /\ UNCHANGED <<fs, pc, input, search_path, search_name, extensions, read_dirs>>

\* the loop body on a directory: the match decision, then the recursive call
\* up to its read_dir
VisitDir ==
    /\ Walking
    /\ Head(Head(stack).files).ok
    /\ is_dir(fs, NextPath)
    /\ Len(stack) < MaxStack
    /\ results_count' = Reported(NextPath).results_count
    /\ printed' = Reported(NextPath).printed
    /\ visited' = Append(visited, NextPath)
    /\ LET search_dir == path_to_str(NextPath)
           listing == read_dir(fs, search_dir)
       IN  /\ read_dirs' = Append(read_dirs,
                                  [dir |-> search_dir, of |-> NextPath, ok |-> listing.ok])
           /\ stack' = enter(Advanced, search_dir, listing)
    /\ UNCHANGED <<fs, pc, input, search_path, search_name, extensions>>

\* the recursive call that the call stack has no room for: the process is aborted
StackOverflow ==
    /\ Walking
    /\ Head(Head(stack).files).ok
    /\ is_dir(fs, NextPath)
    /\ Len(stack) >= MaxStack
    /\ results_count' = Reported(NextPath).results_count
    /\ printed' = Reported(NextPath).printed
    /\ visited' = Append(visited, NextPath)
    /\ pc' = "overflow"
    /\ UNCHANGED <<fs, input, search_path, search_name, extensions, stack, read_dirs>>

\* the for loop of the innermost call is over: it returns to its caller
ReturnFromDir ==
    /\ pc = "walk"
    /\ stack # <<>>
    /\ Head(stack).files = <<>>
    /\ stack' = Tail(stack)
    /\ UNCHANGED <<fs, pc, input, search_path, search_name, extensions, results_count,
                   printed, visited, read_dirs>>

\* search_files has returned to main: the totals are printed, the loop starts over
PrintTotals ==
    /\ pc = "walk"
    /\ stack = <<>>
    /\ printed' = Append(printed, Line("total", <<>>, FALSE, results_count))
    /\ pc' = "prompt"
    /\ UNCHANGED <<fs, input, search_path, search_name, extensions, results_count,
                   stack, visited, read_dirs>>

WalkNext == SkipErrItem \/ VisitFile \/ VisitDir \/ StackOverflow \/ ReturnFromDir \/ PrintTotals

Next == GetSearchDataNone \/ StartSearch \/ WalkNext

Spec == Init /\ [][Next]_vars

\* The program is single-threaded and runs a started walk without waiting for
\* anything; only the prompts wait (for the user).
FairSpec == Spec /\ WF_vars(WalkNext)

----------------------------------------------------------------------------
(* What the properties below speak of *)

\* the directory main hands to search_files
SearchDir == PathOf(search_path)

\* a walk has run to its end and its totals line is printed
Completed == pc = "prompt" /\ printed # <<>> /\ Last(printed).kind = "total"

IsProperPrefix(p, q) == Len(p) < Len(q) /\ SubSeq(q, 1, Len(p)) = p

\* the paths of the match lines, in the order printed
MatchLines == SelectSeq(printed, LAMBDA line : line.kind = "match")

MatchPaths == [i \in 1..Len(MatchLines) |-> MatchLines[i].path]

PrintedPaths == Range(MatchPaths)

\* how many match lines name path
TimesPrinted(path) == Cardinality({i \in 1..Len(MatchPaths) : MatchPaths[i] = path})

TotalsPrinted == Cardinality({i \in 1..Len(printed) : printed[i].kind = "total"})

\* the entries of the directory at path (empty when path is no directory)
Children(f, path) ==
    IF is_dir(f, path)
    THEN {path \o <<e.path[Len(e.path)]>> :
            e \in {x \in Range(f.entries) :
                     /\ x.kind # "ioerr"
                     /\ Len(x.path) > 1
                     /\ SubSeq(x.path, 1, Len(x.path) - 1) = Resolve(f, path).canon}}
    ELSE {}

\* the system can list the directory at path
Listable(f, path) == is_dir(f, path) /\ EntryAt(f, Resolve(f, path).canon).readable

\* every component of path is valid Unicode
UnicodePath(path) == \A i \in 1..Len(path) : "#" \notin Range(path[i])

\* Entries below dir: "all" of the tree; those reachable through "listable"
\* directories; those in directories the "walk" lists (listable, and with a
\* path that is valid Unicode).
RECURSIVE Under(_, _, _)
Under(f, dir, mode) ==
    IF \/ mode = "all" /\ is_dir(f, dir)
       \/ mode = "listable" /\ Listable(f, dir)
       \/ mode = "walk" /\ Listable(f, dir) /\ UnicodePath(dir)
    THEN Children(f, dir) \cup UNION {Under(f, kid, mode) : kid \in Children(f, dir)}
    ELSE {}

\* the lowercased stem and extension of the entry at path, as text (empty when
\* absent or not valid Unicode)
LowerText(opt) ==
    IF opt.some /\ "#" \notin Range(opt.val)
    THEN [i \in 1..Len(opt.val) |-> LowerChar(opt.val[i])]
    ELSE <<>>

StemText(path) == LowerText(file_stem(Last(path)))

ExtText(path) == LowerText(extension(Last(path)))

StemHasFragment(path) == contains(StemText(path), search_name)

ExtInSet(path) == ExtText(path) \in Range(extensions)

\* the rule of the specification for file entries
FileRule(path) ==
    IF search_name = <<>> THEN ExtInSet(path)
    ELSE StemHasFragment(path) /\ (extensions = <<>> \/ ExtInSet(path))

\* directories whose read_dir call failed in this walk
FailedDirs == {read_dirs[i].of : i \in {j \in 1..Len(read_dirs) : ~read_dirs[j].ok}}

----------------------------------------------------------------------------
(* C1 *)

\* C1 as stated: with a non-empty name fragment, whatever the extension set,
\* a completed walk has reported exactly once every regular file and every
\* directory of the tree whose lowercased stem contains the fragment.
C1_EveryStemMatchReported ==
    (Completed /\ search_name # <<>>) =>
        \A path \in Under(fs, SearchDir, "all") :
            ((is_dir(fs, path) \/ is_file(fs, path)) /\ StemHasFragment(path))
                => TimesPrinted(path) = 1

\* the file system holds no symlink: its entries form a tree
NoLinks(f) == \A e \in Range(f.entries) : e.kind # "link"

\* C1 amended: with a non-empty name fragment, a completed walk has printed
\* exactly once each directory (only when the extension set is empty) and each
\* regular file (when the set is empty or holds its extension) that lies in a
\* directory the walk lists and whose lowercased stem contains the fragment,
\* and has printed no other directory or regular file; no path is printed
\* twice, and in a tree no entry is.
C1_StemMatchesReportedOnce ==
    (Completed /\ search_name # <<>>) =>
        /\ \A path \in Under(fs, SearchDir, "walk") :
              (is_dir(fs, path) \/ is_file(fs, path)) =>
                  TimesPrinted(path) =
                     IF /\ StemHasFragment(path)
                        /\ \/ is_dir(fs, path) /\ extensions = <<>>
                           \/ is_file(fs, path) /\ (extensions = <<>> \/ ExtInSet(path))
                     THEN 1 ELSE 0
        /\ \A path \in PrintedPaths : TimesPrinted(path) = 1
        /\ NoLinks(fs) =>
              \A i, j \in 1..Len(MatchPaths) :
                  Resolve(fs, MatchPaths[i]).canon = Resolve(fs, MatchPaths[j]).canon
                      => i = j

\* A by-name search over the mixed-case tree has ended, having reported a
\* directory, a file inside it, and the file whose name is in capitals.
C1_Witness ==
    /\ Completed /\ search_name = <<"a">> /\ extensions = <<>>
    /\ <<t, <<"a", "b">> >> \in PrintedPaths
    /\ <<t, <<"a", "b">>, <<"b", "a", ".", "b">> >> \in PrintedPaths
    /\ <<t, <<"A", ".", "L">> >> \in PrintedPaths

----------------------------------------------------------------------------
(* C2 *)

\* C2 as stated: with an empty name fragment and a non-empty extension set, a
\* completed walk has reported every file of the tree whose lowercased
\* extension is in the set, and no directory.
C2_EveryExtFileReported ==
    (Completed /\ search_name = <<>> /\ extensions # <<>>) =>
        /\ \A path \in Under(fs, SearchDir, "all") :
              (is_file(fs, path) /\ ExtInSet(path)) => path \in PrintedPaths
        /\ \A path \in PrintedPaths : ~is_dir(fs, path)

\* C2 amended: with an empty name fragment and a non-empty extension set, a
\* completed walk has reported every file that lies in a directory the walk
\* lists and whose lowercased extension is in the set, and no directory.
C2_ListedExtFilesReported ==
    (Completed /\ search_name = <<>> /\ extensions # <<>>) =>
        /\ \A path \in Under(fs, SearchDir, "walk") :
              (is_file(fs, path) /\ ExtInSet(path)) => path \in PrintedPaths
        /\ \A path \in PrintedPaths : ~is_dir(fs, path)

\* A by-extension search has ended over a tree holding a directory whose name
\* ends in an extension of the set: the file in capitals is reported, the
\* directory was evaluated and is not.
C2_Witness ==
    /\ Completed /\ search_name = <<>> /\ extensions = <<<<"l">>, <<"b">>>>
    /\ <<t, <<"A", ".", "L">> >> \in PrintedPaths
    /\ <<t, <<"b", ".", "l">> >> \in Range(visited)
    /\ <<t, <<"b", ".", "l">> >> \notin PrintedPaths

----------------------------------------------------------------------------
(* C3 *)

\* C3: during a walk results_count is the number of match lines printed so far
\* in this search, and a totals line carries the number of match lines of its
\* own search, whatever the counter held after the search before.
C3_CountIsMatchesOfThisSearch ==
    /\ pc \in {"walk", "overflow"} => results_count = Len(MatchLines)
    /\ \A i \in 1..Len(printed) :
          printed[i].kind = "total" =>
              printed[i].count =
                  Cardinality({j \in 1..(i - 1) : printed[j].kind = "match"})

\* A search has ended with five matches and a totals line saying five.
C3_Witness ==
    /\ Completed /\ fs = FsTree
    /\ Len(MatchLines) = 5 /\ Last(printed).count = 5

----------------------------------------------------------------------------
(* C4 *)

\* the step in which a read_dir call of the walk fails
ReadDirFails ==
    /\ pc = "walk"
    /\ Len(read_dirs') = Len(read_dirs) + 1
    /\ ~Last(read_dirs').ok

\* C4: a failing read_dir inside the walk leaves the walk running in the
\* caller at the next entry, prints no error, and changes the counter and the
\* output by nothing but the directory's own match; and a completed walk has
\* reported every matching entry that is not below a directory whose read_dir
\* failed.
C4_OnlyFailedSubtreeSkipped ==
    /\ [][ReadDirFails =>
            /\ pc' = "walk"
            /\ stack' = Advanced
            /\ \A i \in 1..Len(printed') : printed'[i].kind \in {"blank", "match"}
            /\ SubSeq(printed', 1, Len(printed)) = printed
            /\ Len(printed') - Len(printed) = results_count' - results_count
            /\ results_count' - results_count =
                  IF entry_matches(fs, Last(visited'), search_name, extensions)
                  THEN 1 ELSE 0]_vars
    /\ [](Completed =>
            \A path \in Under(fs, SearchDir, "all") :
                (/\ \A k \in 1..(Len(path) - 1) : SubSeq(path, 1, k) \notin FailedDirs
                 /\ entry_matches(fs, path, search_name, extensions))
                    => path \in PrintedPaths)

\* A walk has ended in which read_dir failed on a subdirectory and an entry
\* evaluated after that directory was reported.
C4_Witness ==
    /\ Completed
    /\ \E i, j \in 1..Len(visited) :
          /\ i < j
          /\ visited[i] \in FailedDirs
          /\ visited[i] # SearchDir
          /\ visited[j] \in PrintedPaths

----------------------------------------------------------------------------
(* C5 *)

AllWhite(line) == \A i \in 1..Len(line) : line[i] \in {" ", "\n"}

\* the three lines were read, and the root is blank or both others are
BlankQuery(in) ==
    /\ Len(in) = 3
    /\ \A i \in 1..3 : in[i].ok
    /\ AllWhite(in[1].line) \/ (AllWhite(in[2].line) /\ AllWhite(in[3].line))

\* C5: a query whose root is empty after trimming, or whose name fragment is
\* empty after trimming while the extension list has no token, makes the loop
\* start over with no read_dir, no match line and no totals line; and while a
\* walk runs the root is non-empty and the name fragment or the extension set
\* is.
C5_ValidatedBeforeWalk ==
    /\ [][(pc = "prompt" /\ BlankQuery(input')) =>
            /\ pc' = "prompt"
            /\ read_dirs' = <<>>
            /\ stack' = <<>>
            /\ \A i \in 1..Len(printed') : printed'[i].kind \notin {"match", "total"}]_vars
    /\ [](pc # "prompt" =>
            /\ search_path # <<>>
            /\ search_name # <<>> \/ extensions # <<>>
            /\ read_dirs # <<>>
            /\ read_dirs[1].dir # <<>>)

\* The loop is back at the prompt after a query with a blank root was refused.
C5_Witness ==
    /\ pc = "prompt"
    /\ BlankQuery(input)
    /\ AllWhite(input[1].line) /\ ~AllWhite(input[2].line)
    /\ printed = <<Line("invalid", <<>>, FALSE, 0)>>

----------------------------------------------------------------------------
(* C6 *)

\* C6 as stated: a completed walk has evaluated every entry that is reachable
\* from the search directory through directories that can be listed.
C6_EveryReachableEntryEvaluated ==
    Completed => Under(fs, SearchDir, "listable") \subseteq Range(visited)

----------------------------------------------------------------------------
(* C7 *)

\* no symlink of the file system points at one of its own ancestors
NoCycle(f) ==
    \A e \in Range(f.entries) : e.kind = "link" => ~IsProperPrefix(e.target, e.path)

\* the nesting of directories fits the call stack
FitsStack(f) ==
    \A e \in Range(f.entries) : e.kind \in {"dir", "link"} => Len(e.path) <= MaxStack

----------------------------------------------------------------------------
(* C8 *)

\* C8 as stated: every evaluated entry that is not a directory, a regular file
\* or not, is reported exactly when the file rule holds of it.
C8_FileRuleForEveryNonDir ==
    \A i \in 1..Len(visited) :
        ~is_dir(fs, visited[i]) =>
            (visited[i] \in PrintedPaths <=> FileRule(visited[i]))

----------------------------------------------------------------------------
(* C9 *)

\* C9 as stated: the first directory the walk lists is the line entered at the
\* first prompt, trimmed, with its letter case unchanged.
C9_RootCaseUnchanged ==
    pc = "walk" => read_dirs[1].dir = PathOf(trim(input[1].line))

----------------------------------------------------------------------------
(* C10 *)

\* C10: entries are evaluated depth first in pre-order (a directory before
\* its contents, its whole subtree before the next entry of its parent), every
\* match is printed when its entry is evaluated, so the match lines follow
\* that order, and the search directory itself is never reported.
C10_DepthFirstPreOrder ==
    /\ \A i, j \in 1..Len(visited) :
          IsProperPrefix(visited[i], visited[j]) => i < j
    /\ \A i, j, k \in 1..Len(visited) :
          (i < j /\ j < k /\ IsProperPrefix(visited[i], visited[k]))
              => IsProperPrefix(visited[i], visited[j])
    /\ \A i \in 1..Len(visited) :
          entry_matches(fs, visited[i], search_name, extensions)
              <=> visited[i] \in PrintedPaths
    /\ MatchPaths = SelectSeq(visited, LAMBDA path : path \in PrintedPaths)
    /\ \A i \in 1..Len(MatchPaths) : Len(MatchPaths[i]) > Len(SearchDir)

\* A matching directory, then a match inside it, then a match of a later
\* sibling have been printed, in that order.
C10_Witness ==
    \E i, j, k \in 1..Len(MatchPaths) :
        /\ i < j /\ j < k
        /\ is_dir(fs, MatchPaths[i])
        /\ IsProperPrefix(MatchPaths[i], MatchPaths[j])
        /\ ~IsProperPrefix(MatchPaths[i], MatchPaths[k])

====
